---------------------------- MODULE Spec2Model ----------------------------
(***************************************************************************)
(* A model of the openfigi-go request validation and construction engine:  *)
(* the interval type, BaseItem / MappingItem validation, the two builders, *)
(* and the calls that serialise a built item into an HTTP request.         *)
(*                                                                         *)
(* Go strings of the enumerated fields are TLA+ strings.  Date bounds are  *)
(* sequences of one-character strings, so that time.Parse is computed on   *)
(* the characters.  A float64 is a record [inf, v]: inf is -1 / 0 / 1 for  *)
(* -Inf / finite / +Inf and v the finite value.  An element of a [2]any    *)
(* argument is a record [k, f, s] holding its dynamic type k and the value *)
(* of that type.  A *interval pointer is <<>> (nil) or <<iv>>.  Error      *)
(* messages are the formats of the code without their back quotes.        *)
(***************************************************************************)
EXTENDS Integers, Sequences, FiniteSets, TLC

\* ------------------------------------------------------------------ bounds

\* Setter calls made on one builder.
MaxSets == 3

\* Interval setter calls made on one builder when the bounds passed range over
\* every pair (SpecInterval).
MaxIntervalSets == 1

\* The most items of one MappingRequest.
MaxItems == 2

\* Interval setter calls made on one builder when the bounds passed range over
\* every dynamic type (SpecKinds).
MaxKindSets == 2

\* Goroutines that call the configuration functions concurrently.
NProcs == 3

\* Builders passed to one FromMappingItemBuilders call.
MaxBuilders == 3

\* Items a MappingRequest holds before a FromMappingItemBuilders call.
MaxRequest == 2

\* ------------------------------------------------------- reference sets
\* The generated membership tables; the members named are those the tests and
\* the spec use.

exchCodeSet == {"US", "AU"}

micCodeSet == {"ADRK", "BMTF"}

currencySet == {"AUD"}

marketSecDesSet == {"Comdty"}

securityTypeSet == {"OPTION"}

securityType2Set == {"Option", "Pool", "Common Stock"}

stateCodeSet == {"AC"}

idTypeSet == {"TICKER", "BASE_TICKER", "ID_EXCH_SYMBOL"}

Has(set, value) == value \in set

\* ------------------------------------------------------------- float64

Float(n) == [inf |-> 0, v |-> n]

\* math.Inf(sign)
Inf(sign) == [inf |-> sign, v |-> 0]

\* math.IsInf(f, sign) for sign = -1 or 1
IsInf(f, sign) == f.inf = sign

\* f > g on float64
FloatGT(f, g) ==
    IF f.inf # 0 \/ g.inf # 0 THEN f.inf > g.inf ELSE f.v > g.v

\* ---------------------------------------------------- [2]any elements

AnyNil == [k |-> "nil", f |-> Float(0), s |-> <<>>]

AnyFloat(n) == [k |-> "float64", f |-> Float(n), s |-> <<>>]

AnyInt(n) == [k |-> "int", f |-> Float(n), s |-> <<>>]

AnyString(str) == [k |-> "string", f |-> Float(0), s |-> str]

\* -------------------------------------------------------------- errors

\* fmt.Errorf(format, arg); the nil error is ErrNil.
Errorf(format, arg) == [format |-> format, arg |-> arg]

ErrNil == Errorf("<nil>", "")

\* ----------------------------------------------------- package config

VARIABLES
    apiUrl,     \* apiUrl.value, the base URL
    apiKey      \* apiKey.value, the API key; "" is none

config == <<apiUrl, apiKey>>

\* The base URL that init installs.
DefaultUrl == "https://api.openfigi.com/v3"

APIBaseUrl == apiUrl

APIKey == apiKey

valuesUrl(property) == APIBaseUrl \o "/mapping/values/" \o property

\* --------------------------------------------------- time.Parse(DateOnly)

Digits == <<"0", "1", "2", "3", "4", "5", "6", "7", "8", "9">>

isDigit(c) == \E i \in 1..10 : Digits[i] = c

digitVal(c) == (CHOOSE i \in 1..10 : Digits[i] = c) - 1

isLeap(year) == year % 4 = 0 /\ (year % 100 # 0 \/ year % 400 = 0)

daysIn(month, year) ==
    IF month = 2 THEN (IF isLeap(year) THEN 29 ELSE 28)
    ELSE IF month \in {4, 6, 9, 11} THEN 30 ELSE 31

\* time.Parse("2006-01-02", value): four digits, "-", two digits, "-", two
\* digits, nothing after; month in 1..12 and day in 1..daysIn.
ParseDateOnly(value) ==
    IF Len(value) # 10
       \/ \E i \in {1, 2, 3, 4, 6, 7, 9, 10} : ~isDigit(value[i])
       \/ value[5] # "-" \/ value[8] # "-"
    THEN [ok |-> FALSE, y |-> 0, m |-> 0, d |-> 0]
    ELSE LET y == 1000 * digitVal(value[1]) + 100 * digitVal(value[2])
                  + 10 * digitVal(value[3]) + digitVal(value[4])
             m == 10 * digitVal(value[6]) + digitVal(value[7])
             d == 10 * digitVal(value[9]) + digitVal(value[10])
         IN  IF m < 1 \/ m > 12 \/ d < 1 \/ d > daysIn(m, y)
             THEN [ok |-> FALSE, y |-> 0, m |-> 0, d |-> 0]
             ELSE [ok |-> TRUE, y |-> y, m |-> m, d |-> d]

\* Time.After on two parsed dates
After(s, e) ==
    \/ s.y > e.y
    \/ s.y = e.y /\ s.m > e.m
    \/ s.y = e.y /\ s.m = e.m /\ s.d > e.d

\* ----------------------------------------------------------- intervals

\* intepretRange[float64]: nil bounds become -Inf / +Inf, then each element
\* is asserted to be a float64; a failed assertion panics.
intepretRangeFloat(interval) ==
    LET lo == IF interval[1].k = "nil" THEN [AnyNil EXCEPT !.k = "float64", !.f = Inf(-1)]
              ELSE interval[1]
        hi == IF interval[2].k = "nil" THEN [AnyNil EXCEPT !.k = "float64", !.f = Inf(1)]
              ELSE interval[2]
    IN  IF lo.k = "float64" /\ hi.k = "float64"
        THEN [panic |-> FALSE, iv |-> <<lo.f, hi.f>>]
        ELSE [panic |-> TRUE, iv |-> <<Float(0), Float(0)>>]

\* intepretRange[string]: nil bounds become "", then each element is asserted
\* to be a string.
intepretRangeString(interval) ==
    LET lo == IF interval[1].k = "nil" THEN AnyString(<<>>) ELSE interval[1]
        hi == IF interval[2].k = "nil" THEN AnyString(<<>>) ELSE interval[2]
    IN  IF lo.k = "string" /\ hi.k = "string"
        THEN [panic |-> FALSE, iv |-> <<lo.s, hi.s>>]
        ELSE [panic |-> TRUE, iv |-> <<<<>>, <<>>>>]

\* interval[float64].validate with >= for >: equal bounds are refused.
intervalValidateFloat_strict(interval) ==
    LET start == interval[1]
        end == interval[2]
    IN  IF IsInf(start, -1) /\ IsInf(end, 1)
        THEN Errorf("interval cannot be [null, null]", "")
        ELSE IF FloatGT(start, end) \/ start = end
        THEN Errorf("bad interval: %v > %v", "")
        ELSE ErrNil

\* interval[float64].validate
intervalValidateFloat(interval) ==
    LET start == interval[1]
        end == interval[2]
    IN  IF IsInf(start, -1) /\ IsInf(end, 1)
        THEN Errorf("interval cannot be [null, null]", "")
        ELSE IF FloatGT(start, end)
        THEN Errorf("bad interval: %v > %v", "")
        ELSE ErrNil

\* interval[string].validate that parses the end bound without testing the
\* parse error.
intervalValidateString_endUnchecked(interval) ==
    LET start == interval[1]
        end == interval[2]
        s == ParseDateOnly(start)
        e == ParseDateOnly(end)
    IN  IF start = <<>> /\ end = <<>>
        THEN Errorf("interval cannot be [null, null]", "")
        ELSE IF start # <<>> /\ ~s.ok
        THEN Errorf("bad date format: %v", "")
        ELSE IF start # <<>> /\ end # <<>> /\ After(s, e)
        THEN Errorf("bad interval: %v > %v", "")
        ELSE ErrNil

\* interval[string].validate
intervalValidateString(interval) ==
    LET start == interval[1]
        end == interval[2]
        s == ParseDateOnly(start)
        e == ParseDateOnly(end)
    IN  IF start = <<>> /\ end = <<>>
        THEN Errorf("interval cannot be [null, null]", "")
        ELSE IF start # <<>> /\ ~s.ok
        THEN Errorf("bad date format: %v", "")
        ELSE IF end # <<>> /\ ~e.ok
        THEN Errorf("bad date format: %v", "")
        ELSE IF start # <<>> /\ end # <<>> /\ After(s, e)
        THEN Errorf("bad interval: %v > %v", "")
        ELSE ErrNil

\* ------------------------------------------------------------ BaseItem

\* BaseItem{}: every string empty, the flag false, every interval pointer nil.
ZeroBaseItem ==
    [ExchCode |-> "", MicCode |-> "", Currency |-> "", MarketSecDes |-> "",
     SecurityType |-> "", SecurityType2 |-> "",
     IncludeUnlistedEquities |-> FALSE, OptionType |-> "",
     Strike |-> <<>>, ContractSize |-> <<>>, Coupon |-> <<>>,
     Expiration |-> <<>>, Maturity |-> <<>>, StateCode |-> ""]

\* enumCheck without the emptiness tests: an unset field is looked up too.
enumCheck_emptyLookedUp(item) ==
    IF ~Has(exchCodeSet, item.ExchCode)
    THEN Errorf("bad exchCode. See: %s", valuesUrl("exchCode"))
    ELSE IF ~Has(micCodeSet, item.MicCode)
    THEN Errorf("bad micCode. See: %s", valuesUrl("micCode"))
    ELSE IF ~Has(currencySet, item.Currency)
    THEN Errorf("bad currency. See: %s", valuesUrl("currency"))
    ELSE IF ~Has(marketSecDesSet, item.MarketSecDes)
    THEN Errorf("bad marketSecDes. See: %s", valuesUrl("marketSecDes"))
    ELSE IF ~Has(securityTypeSet, item.SecurityType)
    THEN Errorf("bad securityType. See: %s", valuesUrl("securityType"))
    ELSE IF ~Has(securityType2Set, item.SecurityType2)
    THEN Errorf("bad securityType2. See: %s", valuesUrl("securityType2"))
    ELSE IF ~Has(stateCodeSet, item.StateCode)
    THEN Errorf("bad stateCode. See: %s", valuesUrl("stateCode"))
    ELSE ErrNil

\* The switch of BaseItem.validate: the first populated enumerated field that
\* is not in its reference set.
enumCheck(item) ==
    IF item.ExchCode # "" /\ ~Has(exchCodeSet, item.ExchCode)
    THEN Errorf("bad exchCode. See: %s", valuesUrl("exchCode"))
    ELSE IF item.MicCode # "" /\ ~Has(micCodeSet, item.MicCode)
    THEN Errorf("bad micCode. See: %s", valuesUrl("micCode"))
    ELSE IF item.Currency # "" /\ ~Has(currencySet, item.Currency)
    THEN Errorf("bad currency. See: %s", valuesUrl("currency"))
    ELSE IF item.MarketSecDes # "" /\ ~Has(marketSecDesSet, item.MarketSecDes)
    THEN Errorf("bad marketSecDes. See: %s", valuesUrl("marketSecDes"))
    ELSE IF item.SecurityType # "" /\ ~Has(securityTypeSet, item.SecurityType)
    THEN Errorf("bad securityType. See: %s", valuesUrl("securityType"))
    ELSE IF item.SecurityType2 # "" /\ ~Has(securityType2Set, item.SecurityType2)
    THEN Errorf("bad securityType2. See: %s", valuesUrl("securityType2"))
    ELSE IF item.StateCode # "" /\ ~Has(stateCodeSet, item.StateCode)
    THEN Errorf("bad stateCode. See: %s", valuesUrl("stateCode"))
    ELSE ErrNil

\* exclusiveCheck with the second comparison turned round.
exclusiveCheck_wrongTest(item) ==
    IF item.ExchCode # "" /\ item.MicCode = ""
    THEN Errorf("cannot use exchCode and micCode together", "")
    ELSE ErrNil

\* exchCode and micCode cannot coexist
exclusiveCheck(item) ==
    IF item.ExchCode # "" /\ item.MicCode # ""
    THEN Errorf("cannot use exchCode and micCode together", "")
    ELSE ErrNil

\* One validator of the loop: a nil pointer is skipped.
validatorErr(kind, ptr) ==
    IF ptr = <<>> THEN ErrNil
    ELSE IF kind = "float64" THEN intervalValidateFloat(ptr[1])
    ELSE intervalValidateString(ptr[1])

\* The loop over Strike, ContractSize, Coupon, Expiration, Maturity: the
\* first error ends it.
intervalsCheck(item) ==
    LET errs == <<validatorErr("float64", item.Strike),
                  validatorErr("float64", item.ContractSize),
                  validatorErr("float64", item.Coupon),
                  validatorErr("string", item.Expiration),
                  validatorErr("string", item.Maturity)>>
        bad == {i \in 1..5 : errs[i] # ErrNil}
    IN  IF bad = {} THEN ErrNil
        ELSE errs[CHOOSE i \in bad : \A j \in bad : i <= j]

\* conditionalCheck with the securityType2 tests the wrong way round.
conditionalCheck_inverted(item) ==
    IF item.SecurityType2 = "Option" /\ item.Expiration # <<>>
    THEN Errorf("expiration is only valid for Option", "")
    ELSE IF item.SecurityType2 = "Pool" /\ item.Maturity # <<>>
    THEN Errorf("maturity is only valid for Pool", "")
    ELSE ErrNil

\* conditionalCheck that also asks an Option for its expiration and a Pool
\* for its maturity.
conditionalCheck_bothWays(item) ==
    IF (item.SecurityType2 = "Option") # (item.Expiration # <<>>)
    THEN Errorf("expiration is only valid for Option", "")
    ELSE IF (item.SecurityType2 = "Pool") # (item.Maturity # <<>>)
    THEN Errorf("maturity is only valid for Pool", "")
    ELSE ErrNil

\* Only option has expiration; only pool has maturity.
conditionalCheck(item) ==
    IF ~(item.SecurityType2 = "Option") /\ item.Expiration # <<>>
    THEN Errorf("expiration is only valid for Option", "")
    ELSE IF ~(item.SecurityType2 = "Pool") /\ item.Maturity # <<>>
    THEN Errorf("maturity is only valid for Pool", "")
    ELSE ErrNil

\* The first non-nil error of a sequence of checks.
firstErr(errs) ==
    LET bad == {i \in 1..Len(errs) : errs[i] # ErrNil}
    IN  IF bad = {} THEN ErrNil
        ELSE errs[CHOOSE i \in bad : \A j \in bad : i <= j]

\* BaseItem.validate with the intervals validated before the exclusivity test.
BaseItem_validate_intervalsFirst(item) ==
    firstErr(<<enumCheck(item), intervalsCheck(item), exclusiveCheck(item),
               conditionalCheck(item)>>)

BaseItem_validate(item) ==
    firstErr(<<enumCheck(item), exclusiveCheck(item),
               intervalsCheck(item), conditionalCheck(item)>>)

\* --------------------------------------------------------- MappingItem

ZeroMappingItem == [BaseItem |-> ZeroBaseItem, Type |-> "", Value |-> ""]

\* idTypeCheck that, like the optional fields, takes an empty Type as unset.
idTypeCheck_emptyUnset(item) ==
    IF item.Type # "" /\ ~Has(idTypeSet, item.Type)
    THEN Errorf("bad idType. See: %s", valuesUrl(item.Type))
    ELSE IF (item.Type = "BASE_TICKER" \/ item.Type = "ID_EXCH_SYMBOL")
            /\ item.BaseItem.SecurityType2 = ""
    THEN Errorf("securityType2 must be provided for BASE_TICKER and ID_EXCH_SYMBOL", "")
    ELSE ErrNil

\* idTypeCheck that asks for securityType2 for BASE_TICKER alone.
idTypeCheck_oneType(item) ==
    IF ~Has(idTypeSet, item.Type)
    THEN Errorf("bad idType. See: %s", valuesUrl(item.Type))
    ELSE IF item.Type = "BASE_TICKER" /\ item.BaseItem.SecurityType2 = ""
    THEN Errorf("securityType2 must be provided for BASE_TICKER and ID_EXCH_SYMBOL", "")
    ELSE ErrNil

\* The checks of MappingItem.validate that follow the embedded item's.
idTypeCheck(item) ==
    IF ~Has(idTypeSet, item.Type)
    THEN Errorf("bad idType. See: %s", valuesUrl(item.Type))
    ELSE IF (item.Type = "BASE_TICKER" \/ item.Type = "ID_EXCH_SYMBOL")
            /\ item.BaseItem.SecurityType2 = ""
    THEN Errorf("securityType2 must be provided for BASE_TICKER and ID_EXCH_SYMBOL", "")
    ELSE ErrNil

MappingItem_validate(item) ==
    firstErr(<<BaseItem_validate(item.BaseItem), idTypeCheck(item)>>)

\* BaseItem.AsMappingItem(idType, value)
AsMappingItemOf(b_item, idType, value) ==
    LET item == [BaseItem |-> b_item, Type |-> idType, Value |-> value]
    IN  [item |-> item, err |-> MappingItem_validate(item)]

\* ------------------------------------------------------------ builders

\* MappingItem{}.GetBuilder(idType, value)
GetBuilder(idType, value) ==
    [BaseItemBuilder |-> [item |-> ZeroBaseItem],
     item |-> [BaseItem |-> ZeroBaseItem, Type |-> idType, Value |-> value]]

\* BaseItemBuilder.Build: the accumulated item and its validation error.
BaseItemBuilder_Build(b) ==
    [item |-> b.item, err |-> BaseItem_validate(b.item)]

\* MappingItemBuilder.Build: m.item after its BaseItem is overwritten with
\* the embedded builder's item, and that item's validation error.
MappingItemBuilder_Build(m) ==
    LET m_item == [m.item EXCEPT !.BaseItem = m.BaseItemBuilder.item]
    IN  [builder |-> [m EXCEPT !.item = m_item],
         item |-> m_item, err |-> MappingItem_validate(m_item)]

\* ---------------------------------------------------------------- JSON
\* A JSON document is [object |-> o], o a function from keys to values, or
\* [array |-> a], a a sequence of such functions.

\* The key each BaseItem field has in a request body.
JSONName ==
    [ExchCode |-> "exchCode", MicCode |-> "micCode", Currency |-> "currency",
     MarketSecDes |-> "marketSecDes", SecurityType |-> "securityType",
     SecurityType2 |-> "securityType2",
     IncludeUnlistedEquities |-> "includeUnlistedEquities",
     OptionType |-> "optionType", Strike |-> "strike",
     ContractSize |-> "contractSize", Coupon |-> "coupon",
     Expiration |-> "expiration", Maturity |-> "maturity",
     StateCode |-> "stateCode"]

FloatFields == {"Strike", "ContractSize", "Coupon"}

\* The JSON value of a populated field: a string or flag as it is, an
\* interval as the array of its two bounds.
JSONValue(item, f) ==
    IF f \in FloatFields THEN <<item[f][1][1].v, item[f][1][2].v>>
    ELSE IF f \in {"Expiration", "Maturity"} THEN <<item[f][1][1], item[f][1][2]>>
    ELSE item[f]

\* json.Marshal refuses an infinite float64.
Unsupported(item) ==
    \E f \in FloatFields :
        item[f] # <<>> /\ (item[f][1][1].inf # 0 \/ item[f][1][2].inf # 0)

ErrUnsupportedValue == Errorf("json: unsupported value: %s", "Inf")

\* The JSON object of a BaseItem: every field is omitempty, so the object has
\* a key for each field that is not its zero value.
MarshalBaseItem(item) ==
    LET present == {f \in DOMAIN item : item[f] # ZeroBaseItem[f]}
        keys == {JSONName[f] : f \in present}
    IN  [k \in keys |-> JSONValue(item, CHOOSE f \in present : JSONName[f] = k)]

\* The optional string members of searchOrFilterRequest.
OmitEmpty(key, value) ==
    IF value = "" THEN <<>> ELSE [k \in {key} |-> value]

\* json.Marshal(searchOrFilterRequest{item, query, start})
MarshalSearchOrFilter(item, query, start) ==
    IF Unsupported(item) THEN [err |-> ErrUnsupportedValue, json |-> <<>>]
    ELSE [err |-> ErrNil,
          json |-> [object |-> MarshalBaseItem(item) @@ OmitEmpty("query", query)
                                   @@ OmitEmpty("start", start)]]

\* The JSON object of a MappingItem: the embedded item's keys, idType and
\* idValue.
MarshalMappingItem(item) ==
    MarshalBaseItem(item.BaseItem)
        @@ [k \in {"idType", "idValue"} |->
                IF k = "idType" THEN item.Type ELSE item.Value]

\* json.Marshal(m_req): the array of the items' objects.
MarshalMappingRequest(m_req) ==
    IF \E i \in DOMAIN m_req : Unsupported(m_req[i].BaseItem)
    THEN [err |-> ErrUnsupportedValue, json |-> <<>>]
    ELSE [err |-> ErrNil,
          json |-> [array |-> [i \in DOMAIN m_req |-> MarshalMappingItem(m_req[i])]]]

\* ------------------------------------------------------------ requests

\* The status codes of httpStatusMap.
httpStatusMap == {400, 401, 404, 405, 406, 413, 415, 429, 500, 503}

NoRequest == [url |-> "", header |-> {}, body |-> <<>>]

\* NewRequest that sets the key header whatever the key is.
NewRequest_alwaysKey(endpoint, jsonData) ==
    [url |-> APIBaseUrl \o endpoint,
     header |-> {<<"Content-Type", "application/json">>, <<"X-OPENFIGI-APIKEY", APIKey>>},
     body |-> jsonData]

\* http.NewRequest and the two header lines of Fetch and postBaseItem
NewRequest(endpoint, jsonData) ==
    [url |-> APIBaseUrl \o endpoint,
     header |-> {<<"Content-Type", "application/json">>}
                  \cup (IF APIKey # "" THEN {<<"X-OPENFIGI-APIKEY", APIKey>>} ELSE {}),
     body |-> jsonData]

\* What the client hands back for a request: a transport error, or a status
\* and a body that is either a response document or not JSON.
Reply(status, json, n, next, total) ==
    [status |-> status, json |-> json, n |-> n, next |-> next, total |-> total]

ErrTransport == Errorf("%s", "connection refused")

ErrUnmarshal == Errorf("%s", "invalid character")

\* SearchResponse{} and FilterResponse{}, with the number of Data entries
\* for Data
ZeroResponse(kind) ==
    [kind |-> kind, Data |-> 0, NextHash |-> "", Total |-> 0,
     baseitem |-> ZeroBaseItem, query |-> ""]

NoResponse == [value |-> ZeroResponse("none"), err |-> ErrNil]

\* No reply: the call sent nothing.
NoReply == Reply(0, FALSE, 0, "", 0)

NoCall == [op |-> "none", on |-> ZeroResponse("none"), nreq |-> 0, status |-> 0]

\* What follows client.Do in Fetch and postBaseItem: the transport error,
\* the error of a status in httpStatusMap, or the decoded body.  kind is the
\* response type T; the total is a member of FilterResponse alone.
Receive(kind, reply) ==
    IF reply.status = 0
    THEN [value |-> ZeroResponse(kind), err |-> ErrTransport]
    ELSE IF reply.status \in httpStatusMap
    THEN [value |-> ZeroResponse(kind), err |-> Errorf("%d", ToString(reply.status))]
    ELSE IF ~reply.json
    THEN [value |-> ZeroResponse(kind), err |-> ErrUnmarshal]
    ELSE [value |-> [ZeroResponse(kind) EXCEPT
                        !.Data = reply.n,
                        !.NextHash = IF kind = "mapping" THEN "" ELSE reply.next,
                        !.Total = IF kind = "filter" THEN reply.total ELSE 0],
          err |-> ErrNil]

\* postBaseItem[T]: the request sent, if one was, and what is returned.
postBaseItem(kind, endpoint, item, query, start, reply) ==
    LET m == MarshalSearchOrFilter(item, query, start)
    IN  IF m.err # ErrNil
        THEN [req |-> <<>>, value |-> ZeroResponse(kind), err |-> m.err]
        ELSE [req |-> <<NewRequest(endpoint, m.json)>>] @@ Receive(kind, reply)

\* item.Search(query, start) and item.Filter(query, start): postBaseItem,
\* then the item and the query are kept in the response.
SearchOrFilter(kind, endpoint, item, query, start, reply) ==
    LET r == postBaseItem(kind, endpoint, item, query, start, reply)
    IN  [r EXCEPT !.value.baseitem = item, !.value.query = query]

ErrNoMore == Errorf("no more results", "")

\* m_req.Fetch()
FetchOf(m_req, reply) ==
    LET m == MarshalMappingRequest(m_req)
    IN  IF m.err # ErrNil
        THEN [req |-> <<>>, value |-> ZeroResponse("mapping"), err |-> m.err]
        ELSE [req |-> <<NewRequest("/mapping", m.json)>>] @@ Receive("mapping", reply)

\* ------------------------------------------------------------- inputs

D_2021_01_01 == <<"2", "0", "2", "1", "-", "0", "1", "-", "0", "1">>

D_2022_01_01 == <<"2", "0", "2", "2", "-", "0", "1", "-", "0", "1">>

\* A day February does not have.
D_2023_02_30 == <<"2", "0", "2", "3", "-", "0", "2", "-", "3", "0">>

\* Not a date at all.
D_zigzagzig == <<"z", "i", "g", "z", "a", "g", "z", "i", "g">>

Bad == "zigzagzig"

IdTypes == {"", "TICKER", "BASE_TICKER", "ID_EXCH_SYMBOL", Bad}

\* The bounds a caller passes for a numeric interval.
NumBounds == {AnyNil, AnyFloat(2), AnyFloat(10)}

\* The bounds a caller passes for a date interval.
DateBounds == {AnyNil, AnyString(<<>>), AnyString(D_2021_01_01),
               AnyString(D_2022_01_01), AnyString(D_2023_02_30),
               AnyString(D_zigzagzig)}

\* The interval arguments of Spec: in order, out of order, [null, null].
NumArgs == {<<AnyFloat(2), AnyFloat(10)>>, <<AnyFloat(10), AnyFloat(2)>>,
            <<AnyNil, AnyNil>>}

DateArgs == {<<AnyString(D_2021_01_01), AnyString(D_2022_01_01)>>,
             <<AnyString(D_2022_01_01), AnyString(D_2021_01_01)>>,
             <<AnyString(D_2023_02_30), AnyNil>>}

\* Bounds of every dynamic type a caller may put in a [2]any: absent, a
\* float64, an int as in the usage comments, a string.
KindBounds == {AnyNil, AnyFloat(2), AnyInt(2), AnyString(D_2021_01_01)}

\* The URL of a test server.
TestUrl == "http://127.0.0.1:8080"

\* A one-sided strike, which validates.
StrikeFrom2 == <<AnyFloat(2), AnyNil>>

\* The hash of a further page.
Hash == "QW9JSVFEOTJ"

\* What the client may hand back.
Replies ==
    {Reply(0, FALSE, 0, "", 0),
     Reply(200, TRUE, 1, Hash, 3),
     Reply(200, TRUE, 0, "", 3),
     Reply(429, TRUE, 0, "", 0),
     Reply(418, FALSE, 0, "", 0),
     Reply(403, TRUE, 0, "", 0)}

\* -------------------------------------------------------------- state

VARIABLES
    builder,    \* the MappingItemBuilder, its embedded BaseItemBuilder included
    nset,       \* setter calls made on it
    given,      \* the argument each setter was last called with, by field
    call,       \* the last interval setter call: name, argument, whether it panicked
    ret,        \* the last (item, err) a Build or AsMappingItem returned, and by which
    wire,       \* the last HTTP request handed to the client
    res,        \* the last response value and error a call returned
    done,       \* the last call that may send a request: which, on what response,
                \* how many requests it handed to the client, the status it got
    mu,         \* the RWMutex of apiUrl and of apiKey: the goroutines holding it
                \* for writing (w) and for reading (r)
    pc,         \* each goroutine's position in a Set or Get of the configuration
    committed,  \* per configuration value, the argument of the last Set that
                \* returned, or the initial value
    asm,        \* the request a call is putting together: how far the call is,
                \* which call it is, the request so far, the key it read
    pairs,      \* every (base URL, key) the configuration has held at one time
                \* while goroutines set it beside a call (GoSetAPIBaseUrl,
                \* GoSetAPIKey)
    m_req,      \* a MappingRequest the caller holds
    batch       \* the last FromMappingItemBuilders call on it: the builders it
                \* was given, the request before the call, the error returned

vars == <<apiUrl, apiKey, builder, nset, given, call, ret, wire, res, done, mu, pc, committed,
          asm, pairs, m_req, batch>>

net == <<wire, res, done>>

sync == <<mu, pc, committed>>

\* The request under assembly with the history of the configuration, and the
\* MappingRequest with its last call.
other == <<asm, pairs, m_req, batch>>

\* What the configuration functions leave alone.
client == <<builder, nset, given, call, ret, net, other>>

Procs == 1..NProcs

Idle == [at |-> "idle", v |-> "", arg |-> "", val |-> ""]

\* No request is under assembly.
NoAssembly == [at |-> "idle", op |-> "none", req |-> NoRequest, key |-> ""]

\* FromMappingItemBuilders was not called.
NoBatch == [builders |-> <<>>, before |-> <<>>, err |-> ErrNil]

\* given after the setter of field was called with value
Given(field, value) ==
    [f \in DOMAIN given \cup {field} |-> IF f = field THEN value ELSE given[f]]

Call(op, arg, panic) == [op |-> op, arg |-> arg, panic |-> panic]

NoArg == <<AnyNil, AnyNil>>

\* The state after MappingItem{}.GetBuilder(idType, "IBM"), idType in idTypes.
InitWith(idTypes) ==
    /\ \E idType \in idTypes : builder = GetBuilder(idType, "IBM")
    /\ nset = 0
    /\ given = <<>>
    /\ call = Call("none", NoArg, FALSE)
    /\ ret = [op |-> "none", item |-> ZeroBaseItem, err |-> ErrNil]
    /\ apiUrl = DefaultUrl
    /\ apiKey = ""
    /\ wire = NoRequest
    /\ res = NoResponse
    /\ done = NoCall
    /\ mu = [v \in {"url", "key"} |-> [w |-> {}, r |-> {}]]
    /\ pc = [p \in Procs |-> Idle]
    /\ committed = [url |-> DefaultUrl, key |-> ""]
    /\ asm = NoAssembly
    /\ pairs = {<<DefaultUrl, "">>}
    /\ m_req = <<>>
    /\ batch = NoBatch

\* A setter that stores its argument in one field of b.item.
SetField(field, value) ==
    /\ nset < MaxSets
    /\ builder' = [builder EXCEPT !.BaseItemBuilder.item[field] = value]
    /\ nset' = nset + 1
    /\ given' = Given(field, value)
    /\ UNCHANGED <<call, ret, config, net, sync, other>>

\* SetFloatInterval that stores the pointer whether or not intepretRange
\* panicked.
SetFloatInterval_storesAnyway(op, field, arg) ==
    LET r == intepretRangeFloat(arg)
    IN  /\ nset < MaxSets
        /\ builder' = [builder EXCEPT !.BaseItemBuilder.item[field] = <<r.iv>>]
        /\ nset' = nset + 1
        /\ given' = IF r.panic THEN given ELSE Given(field, arg)
        /\ call' = Call(op, arg, r.panic)
        /\ UNCHANGED <<ret, config, net, sync, other>>

\* SetFloatInterval that stores the interval through the pointer the field
\* already holds, which an item built before holds too.
SetFloatInterval_throughPointer(op, field, arg) ==
    LET r == intepretRangeFloat(arg)
        old == builder.BaseItemBuilder.item[field]
    IN  /\ nset < MaxSets
        /\ builder' = IF r.panic THEN builder
                      ELSE [builder EXCEPT !.BaseItemBuilder.item[field] = <<r.iv>>]
        /\ nset' = nset + 1
        /\ given' = IF r.panic THEN given ELSE Given(field, arg)
        /\ call' = Call(op, arg, r.panic)
        /\ ret' = IF r.panic \/ old = <<>> \/ ret.op # "Build" \/ ret.item[field] # old
                  THEN ret
                  ELSE [ret EXCEPT !.item[field] = <<r.iv>>]
        /\ UNCHANGED <<config, net, sync, other>>

\* A setter of a numeric interval: intepretRange, then the pointer is stored;
\* a panic of intepretRange leaves the builder as it was.
SetFloatInterval(op, field, arg) ==
    LET r == intepretRangeFloat(arg)
    IN  /\ nset < MaxSets
        /\ builder' = IF r.panic THEN builder
                      ELSE [builder EXCEPT !.BaseItemBuilder.item[field] = <<r.iv>>]
        /\ nset' = nset + 1
        /\ given' = IF r.panic THEN given ELSE Given(field, arg)
        /\ call' = Call(op, arg, r.panic)
        /\ UNCHANGED <<ret, config, net, sync, other>>

\* SetStringInterval that stores a nil pointer for [null, null], as if the
\* call cleared the field.
SetStringInterval_nilUnsets(op, field, arg) ==
    LET r == intepretRangeString(arg)
    IN  /\ nset < MaxSets
        /\ builder' = IF r.panic THEN builder
                      ELSE IF arg = <<AnyNil, AnyNil>>
                      THEN [builder EXCEPT !.BaseItemBuilder.item[field] = <<>>]
                      ELSE [builder EXCEPT !.BaseItemBuilder.item[field] = <<r.iv>>]
        /\ nset' = nset + 1
        /\ given' = IF r.panic THEN given ELSE Given(field, arg)
        /\ call' = Call(op, arg, r.panic)
        /\ UNCHANGED <<ret, config, net, sync, other>>

\* A setter of a date interval.
SetStringInterval(op, field, arg) ==
    LET r == intepretRangeString(arg)
    IN  /\ nset < MaxSets
        /\ builder' = IF r.panic THEN builder
                      ELSE [builder EXCEPT !.BaseItemBuilder.item[field] = <<r.iv>>]
        /\ nset' = nset + 1
        /\ given' = IF r.panic THEN given ELSE Given(field, arg)
        /\ call' = Call(op, arg, r.panic)
        /\ UNCHANGED <<ret, config, net, sync, other>>

SetExchCode(exchCode) == SetField("ExchCode", exchCode)

SetMicCode(micCode) == SetField("MicCode", micCode)

SetCurrency(currency) == SetField("Currency", currency)

SetMarketSecDes(marketSecDes) == SetField("MarketSecDes", marketSecDes)

SetSecurityType(securityType) == SetField("SecurityType", securityType)

SetSecurityType2(securityType2) == SetField("SecurityType2", securityType2)

SetIncludeUnlistedEquities(include) == SetField("IncludeUnlistedEquities", include)

SetOptionType(optionType) == SetField("OptionType", optionType)

SetStrike(strike) == SetFloatInterval("SetStrike", "Strike", strike)

SetContractSize(contractSize) == SetFloatInterval("SetContractSize", "ContractSize", contractSize)

SetCoupon(coupon) == SetFloatInterval("SetCoupon", "Coupon", coupon)

SetExpiration(expiration) == SetStringInterval("SetExpiration", "Expiration", expiration)

SetMaturity(maturity) == SetStringInterval("SetMaturity", "Maturity", maturity)

SetStateCode(stateCode) == SetField("StateCode", stateCode)

\* Build that hands the accumulated item over and starts the builder afresh.
Build_resets ==
    LET r == BaseItemBuilder_Build(builder.BaseItemBuilder)
    IN  /\ ret' = [op |-> "Build", item |-> r.item, err |-> r.err]
        /\ builder' = [builder EXCEPT !.BaseItemBuilder.item = ZeroBaseItem]
        /\ UNCHANGED <<nset, given, call, config, net, sync, other>>

\* b.Build() on the embedded BaseItemBuilder
Build ==
    LET r == BaseItemBuilder_Build(builder.BaseItemBuilder)
    IN  /\ ret' = [op |-> "Build", item |-> r.item, err |-> r.err]
        /\ UNCHANGED <<builder, nset, given, call, config, net, sync, other>>

\* m.Build() on the MappingItemBuilder
BuildMapping ==
    LET r == MappingItemBuilder_Build(builder)
    IN  /\ builder' = r.builder
        /\ ret' = [op |-> "BuildMapping", item |-> r.item, err |-> r.err]
        /\ UNCHANGED <<nset, given, call, config, net, sync, other>>

\* The BaseItem the caller holds: the one Build returned, or the one embedded
\* in the MappingItem it was handed.
HeldBaseItem ==
    IF ret.op \in {"BuildMapping", "AsMappingItem"} THEN ret.item.BaseItem
    ELSE ret.item

\* item.AsMappingItem(idType, value) on the BaseItem the caller holds
AsMappingItem(idType, value) ==
    LET r == AsMappingItemOf(HeldBaseItem, idType, value)
    IN  /\ ret' = [op |-> "AsMappingItem", item |-> r.item, err |-> r.err]
        /\ UNCHANGED <<builder, nset, given, call, config, net, sync, other>>

\* SetAPIBaseUrl(url) run from Lock to Unlock by the one caller
SetAPIBaseUrl(url) ==
    /\ mu["url"] = [w |-> {}, r |-> {}]
    /\ apiUrl' = url
    /\ committed' = [committed EXCEPT !["url"] = url]
    /\ UNCHANGED <<apiKey, client, mu, pc>>

\* SetAPIKey(key) run from Lock to Unlock by the one caller
SetAPIKey(key) ==
    /\ mu["key"] = [w |-> {}, r |-> {}]
    /\ apiKey' = key
    /\ committed' = [committed EXCEPT !["key"] = key]
    /\ UNCHANGED <<apiUrl, client, mu, pc>>

\* ---- the configuration functions, one lock operation or memory access a step

\* The configuration value named v
Value(v) == IF v = "url" THEN apiUrl ELSE apiKey

\* A string is a data pointer and a length, stored one after the other: after
\* the first store the variable has the data of new with the length of old.
Torn(old, new) == IF old = new THEN new ELSE new \o "#" \o old

\* value = x for the configuration value named v
Store(v, x) ==
    /\ apiUrl' = IF v = "url" THEN x ELSE apiUrl
    /\ apiKey' = IF v = "key" THEN x ELSE apiKey

\* RLock that does not wait for the writer.
RLock_noWait(p, v) ==
    /\ pc[p].at = "idle"
    /\ mu' = [mu EXCEPT ![v].r = @ \cup {p}]
    /\ pc' = [pc EXCEPT ![p] = [Idle EXCEPT !.at = "RLocked", !.v = v]]
    /\ UNCHANGED <<config, committed, client>>

\* SetAPIBaseUrl / SetAPIKey: Lock(), which waits while any goroutine holds
\* the mutex
Lock(p, v, arg) ==
    /\ pc[p].at = "idle"
    /\ mu[v].w = {} /\ mu[v].r = {}
    /\ mu' = [mu EXCEPT ![v].w = {p}]
    /\ pc' = [pc EXCEPT ![p] = [Idle EXCEPT !.at = "Locked", !.v = v, !.arg = arg]]
    /\ UNCHANGED <<config, committed, client>>

\* value = url: the first of the two stores
StoreData(p) ==
    /\ pc[p].at = "Locked"
    /\ Store(pc[p].v, Torn(Value(pc[p].v), pc[p].arg))
    /\ pc' = [pc EXCEPT ![p].at = "Half"]
    /\ UNCHANGED <<mu, committed, client>>

\* value = url: the second store
StoreLen(p) ==
    /\ pc[p].at = "Half"
    /\ Store(pc[p].v, pc[p].arg)
    /\ pc' = [pc EXCEPT ![p].at = "Stored"]
    /\ UNCHANGED <<mu, committed, client>>

\* the deferred Unlock(), and the return
Unlock(p) ==
    /\ pc[p].at = "Stored"
    /\ mu' = [mu EXCEPT ![pc[p].v].w = @ \ {p}]
    /\ committed' = [committed EXCEPT ![pc[p].v] = pc[p].arg]
    /\ pc' = [pc EXCEPT ![p] = Idle]
    /\ UNCHANGED <<config, client>>

\* APIBaseUrl / APIKey: RLock(), which waits while a goroutine holds the mutex
\* for writing
RLock(p, v) ==
    /\ pc[p].at = "idle"
    /\ mu[v].w = {}
    /\ mu' = [mu EXCEPT ![v].r = @ \cup {p}]
    /\ pc' = [pc EXCEPT ![p] = [Idle EXCEPT !.at = "RLocked", !.v = v]]
    /\ UNCHANGED <<config, committed, client>>

\* return value: the result is read
Load(p) ==
    /\ pc[p].at = "RLocked"
    /\ pc' = [pc EXCEPT ![p].at = "Loaded", ![p].val = Value(pc[p].v)]
    /\ UNCHANGED <<config, mu, committed, client>>

\* the deferred RUnlock(), and the return of the result
RUnlock(p) ==
    /\ pc[p].at = "Loaded"
    /\ mu' = [mu EXCEPT ![pc[p].v].r = @ \ {p}]
    /\ pc' = [pc EXCEPT ![p] = Idle]
    /\ UNCHANGED <<config, committed, client>>

\* The outcome r of the call op, made on the response value on (Next) or on
\* an item, that was handed reply if it sent a request
Returned(op, on, reply, r) ==
    /\ wire' = IF r.req = <<>> THEN wire ELSE r.req[1]
    /\ res' = [value |-> r.value, err |-> r.err]
    /\ done' = [op |-> op, on |-> on, nreq |-> Len(r.req),
                status |-> IF r.req = <<>> THEN 0 ELSE reply.status]
    /\ UNCHANGED <<config, builder, nset, given, call, ret, sync, other>>

\* item.Search(query, start) on the BaseItem the caller holds
Search(query, start) ==
    /\ ret.op # "none"
    /\ \E reply \in Replies :
          Returned("Search", NoResponse.value, reply,
                   SearchOrFilter("search", "/search", HeldBaseItem, query, start, reply))

\* item.Filter(query, start) on the BaseItem the caller holds
Filter(query, start) ==
    /\ ret.op # "none"
    /\ \E reply \in Replies :
          Returned("Filter", NoResponse.value, reply,
                   SearchOrFilter("filter", "/filter", HeldBaseItem, query, start, reply))

\* searchRes.Next() on the SearchResponse the caller holds
SearchNext ==
    /\ res.value.kind = "search"
    /\ IF res.value.NextHash = ""
       THEN Returned("SearchNext", res.value, NoReply,
                     [req |-> <<>>, value |-> ZeroResponse("search"), err |-> ErrNoMore])
       ELSE \E reply \in Replies :
              Returned("SearchNext", res.value, reply,
                       SearchOrFilter("search", "/search", res.value.baseitem,
                                      res.value.query, res.value.NextHash, reply))

\* FilterNext that replays through Search.
FilterNext_viaSearch ==
    /\ res.value.kind = "filter"
    /\ IF res.value.NextHash = ""
       THEN Returned("FilterNext", res.value, NoReply,
                     [req |-> <<>>, value |-> ZeroResponse("filter"), err |-> ErrNoMore])
       ELSE \E reply \in Replies :
              Returned("FilterNext", res.value, reply,
                       SearchOrFilter("filter", "/search", res.value.baseitem,
                                      res.value.query, res.value.NextHash, reply))

\* filterRes.Next() on the FilterResponse the caller holds
FilterNext ==
    /\ res.value.kind = "filter"
    /\ IF res.value.NextHash = ""
       THEN Returned("FilterNext", res.value, NoReply,
                     [req |-> <<>>, value |-> ZeroResponse("filter"), err |-> ErrNoMore])
       ELSE \E reply \in Replies :
              Returned("FilterNext", res.value, reply,
                       SearchOrFilter("filter", "/filter", res.value.baseitem,
                                      res.value.query, res.value.NextHash, reply))

\* MappingRequest{item, ...}.Fetch() with n copies of the MappingItem the
\* caller holds
Fetch(n) ==
    /\ ret.op \in {"BuildMapping", "AsMappingItem"}
    /\ \E reply \in Replies :
          Returned("Fetch", NoResponse.value, reply,
                   FetchOf([i \in 1..n |-> ret.item], reply))

\* ---------------------------------------------------------------- Spec
\* One BaseItemBuilder: fields are set, then the item is built.

Next ==
    \/ ret.op = "none" /\ \E v \in {"US", Bad} : SetExchCode(v)
    \/ ret.op = "none" /\ \E v \in {"ADRK", Bad} : SetMicCode(v)
    \/ ret.op = "none" /\ \E v \in {"AUD", Bad} : SetCurrency(v)
    \/ ret.op = "none" /\ \E v \in {"Comdty", Bad} : SetMarketSecDes(v)
    \/ ret.op = "none" /\ \E v \in {"OPTION", Bad} : SetSecurityType(v)
    \/ ret.op = "none"
       /\ \E v \in {"Option", "Pool", "Common Stock", Bad} : SetSecurityType2(v)
    \/ ret.op = "none" /\ \E v \in BOOLEAN : SetIncludeUnlistedEquities(v)
    \/ ret.op = "none" /\ \E v \in {"Call", Bad} : SetOptionType(v)
    \/ ret.op = "none" /\ \E arg \in NumArgs : SetStrike(arg)
    \/ ret.op = "none" /\ \E arg \in NumArgs : SetContractSize(arg)
    \/ ret.op = "none" /\ \E arg \in NumArgs : SetCoupon(arg)
    \/ ret.op = "none" /\ \E arg \in DateArgs : SetExpiration(arg)
    \/ ret.op = "none" /\ \E arg \in DateArgs : SetMaturity(arg)
    \/ ret.op = "none" /\ \E v \in {"AC", Bad} : SetStateCode(v)
    \/ Build

Spec == InitWith({"TICKER"}) /\ [][Next]_vars

\* -------------------------------------------------------- SpecInterval
\* The interval setters over every pair of bounds, then Build.

NextInterval ==
    \/ nset < MaxIntervalSets /\ \E a, b \in NumBounds : SetStrike(<<a, b>>)
    \/ nset < MaxIntervalSets /\ \E a, b \in NumBounds : SetContractSize(<<a, b>>)
    \/ nset < MaxIntervalSets /\ \E a, b \in NumBounds : SetCoupon(<<a, b>>)
    \/ nset < MaxIntervalSets /\ \E a, b \in DateBounds : SetExpiration(<<a, b>>)
    \/ nset < MaxIntervalSets /\ \E a, b \in DateBounds : SetMaturity(<<a, b>>)
    \/ \E v \in {"Option", "Pool"} : SetSecurityType2(v)
    \/ Build

SpecInterval == InitWith({"TICKER"}) /\ [][NextInterval]_vars

\* --------------------------------------------------------- SpecMapping
\* One MappingItemBuilder of any identifier type: fields are set, then the
\* item is built, by either Build or by AsMappingItem on a built BaseItem.

NextMapping ==
    \/ ret.op = "none" /\ \E v \in {"US", Bad} : SetExchCode(v)
    \/ ret.op = "none" /\ \E v \in {"ADRK"} : SetMicCode(v)
    \/ ret.op = "none" /\ \E v \in {"Option", "Common Stock", Bad} : SetSecurityType2(v)
    \/ ret.op = "none" /\ \E arg \in NumArgs : SetStrike(arg)
    \/ ret.op = "none" /\ \E arg \in DateArgs : SetExpiration(arg)
    \/ Build
    \/ BuildMapping
    \/ \E idType \in IdTypes : AsMappingItem(idType, "IBM")

SpecMapping == InitWith(IdTypes) /\ [][NextMapping]_vars

\* ------------------------------------------------------------- SpecNet
\* A builder, the items built from it, and the calls that send them.

NextNet ==
    \/ ret.op = "none" /\ \E v \in {"US", Bad} : SetExchCode(v)
    \/ ret.op = "none" /\ \E arg \in {StrikeFrom2} : SetStrike(arg)
    \/ Build
    \/ BuildMapping
    \/ \E url \in {DefaultUrl, TestUrl} : SetAPIBaseUrl(url)
    \/ \E key \in {"", "key"} : SetAPIKey(key)
    \/ Search("ibm", "")
    \/ SearchNext
    \/ Filter("ibm", "")
    \/ FilterNext
    \/ \E n \in 1..MaxItems : Fetch(n)

SpecNet == InitWith({"TICKER", Bad}) /\ [][NextNet]_vars

\* ----------------------------------------------------------- SpecOrder
\* Builders that break several rules at once, built by either Build.

NextOrder ==
    \/ ret.op = "none" /\ \E v \in {"US", Bad} : SetExchCode(v)
    \/ ret.op = "none" /\ \E v \in {"ADRK"} : SetMicCode(v)
    \/ ret.op = "none" /\ \E v \in {Bad} : SetStateCode(v)
    \/ ret.op = "none" /\ \E arg \in {<<AnyFloat(10), AnyFloat(2)>>} : SetStrike(arg)
    \/ ret.op = "none" /\ \E arg \in {<<AnyNil, AnyNil>>} : SetContractSize(arg)
    \/ ret.op = "none" /\ \E arg \in {<<AnyFloat(10), AnyFloat(2)>>} : SetCoupon(arg)
    \/ ret.op = "none"
       /\ \E arg \in {<<AnyString(D_2023_02_30), AnyNil>>,
                      <<AnyString(D_2021_01_01), AnyNil>>} : SetExpiration(arg)
    \/ ret.op = "none"
       /\ \E arg \in {<<AnyString(D_2022_01_01), AnyString(D_2021_01_01)>>,
                      <<AnyString(D_2021_01_01), AnyNil>>} : SetMaturity(arg)
    \/ Build
    \/ BuildMapping

SpecOrder == InitWith({"TICKER", "BASE_TICKER", Bad}) /\ [][NextOrder]_vars

\* ----------------------------------------------------------- SpecReuse
\* One builder that is set, built, set again and built again, with the items
\* built from it searched and paged in between.

NextReuse ==
    \/ \E v \in {"US", Bad} : SetExchCode(v)
    \/ \E arg \in {<<AnyFloat(2), AnyFloat(10)>>, <<AnyFloat(10), AnyFloat(2)>>} :
          SetStrike(arg)
    \/ Build
    \/ BuildMapping
    \/ Search("ibm", "")
    \/ SearchNext
    \/ Filter("ibm", "")
    \/ FilterNext

SpecReuse == InitWith({"TICKER"}) /\ [][NextReuse]_vars

\* ----------------------------------------------------------- SpecKinds
\* The interval setters over bounds of every dynamic type, then Build.

NextKinds ==
    \/ nset < MaxKindSets /\ \E a, b \in KindBounds : SetStrike(<<a, b>>)
    \/ nset < MaxKindSets /\ \E a, b \in KindBounds : SetContractSize(<<a, b>>)
    \/ nset < MaxKindSets /\ \E a, b \in KindBounds : SetCoupon(<<a, b>>)
    \/ nset < MaxKindSets /\ \E a, b \in KindBounds : SetExpiration(<<a, b>>)
    \/ nset < MaxKindSets /\ \E a, b \in KindBounds : SetMaturity(<<a, b>>)
    \/ Build

SpecKinds == InitWith({"TICKER"}) /\ [][NextKinds]_vars

\* ---------------------------------------------------------- SpecConfig
\* Goroutines that set and get the base URL and the API key concurrently.

NextConfig ==
    \/ \E p \in Procs, url \in {DefaultUrl, TestUrl} : Lock(p, "url", url)
    \/ \E p \in Procs : Lock(p, "key", "key")
    \/ \E p \in Procs : StoreData(p)
    \/ \E p \in Procs : StoreLen(p)
    \/ \E p \in Procs : Unlock(p)
    \/ \E p \in Procs, v \in {"url", "key"} : RLock(p, v)
    \/ \E p \in Procs : Load(p)
    \/ \E p \in Procs : RUnlock(p)

SpecConfig == InitWith({"TICKER"}) /\ [][NextConfig]_vars

\* ============================================================== claims

\* The item the builder has accumulated.
Acc == builder.BaseItemBuilder.item

\* The enumerated string fields in the order validate tests them, with the
\* name each has on the wire and its reference set.
EnumFields ==
    <<[field |-> "ExchCode", name |-> "exchCode", set |-> exchCodeSet],
      [field |-> "MicCode", name |-> "micCode", set |-> micCodeSet],
      [field |-> "Currency", name |-> "currency", set |-> currencySet],
      [field |-> "MarketSecDes", name |-> "marketSecDes", set |-> marketSecDesSet],
      [field |-> "SecurityType", name |-> "securityType", set |-> securityTypeSet],
      [field |-> "SecurityType2", name |-> "securityType2", set |-> securityType2Set],
      [field |-> "StateCode", name |-> "stateCode", set |-> stateCodeSet]>>

EnumIdx == DOMAIN EnumFields

\* Field i of the item is populated with a value outside its reference set.
OutOfSet(item, i) ==
    /\ item[EnumFields[i].field] # ""
    /\ item[EnumFields[i].field] \notin EnumFields[i].set

\* The error that names enumerated field i.
BadEnum(i) ==
    Errorf("bad " \o EnumFields[i].name \o ". See: %s", valuesUrl(EnumFields[i].name))

ErrExclusive == Errorf("cannot use exchCode and micCode together", "")

\* C1: after Build, if some enumerated field of the builder is populated with
\* a value outside its reference set, the error names the first such field in
\* the order exchCode, micCode, currency, marketSecDes, securityType,
\* securityType2, stateCode; and an error naming a field is returned only
\* when that field is non-empty.
C1_EnumMembership ==
    ret.op = "Build" =>
        \A i \in EnumIdx :
            /\ (OutOfSet(Acc, i) /\ \A j \in EnumIdx : j < i => ~OutOfSet(Acc, j))
                    => ret.err = BadEnum(i)
            /\ ret.err = BadEnum(i) => Acc[EnumFields[i].field] # ""

\* Two fields are out of their sets and Build has named the first of them.
C1_Witness ==
    /\ ret.op = "Build"
    /\ Acc.ExchCode = ""
    /\ Acc.Currency = Bad
    /\ Acc.StateCode = Bad
    /\ ret.err = BadEnum(3)

\* C2 as stated: whenever exchCode and micCode are both non-empty, Build
\* returns the mutually-exclusive-fields error, whatever the other fields.
C2_AlwaysExclusiveError ==
    (ret.op = "Build" /\ Acc.ExchCode # "" /\ Acc.MicCode # "")
        => ret.err = ErrExclusive

\* C2 amended: whenever exchCode and micCode are both non-empty, Build fails;
\* the error is the mutually-exclusive-fields error when no populated
\* enumerated field is outside its reference set, whatever the intervals and
\* the other fields hold, and otherwise it names the first such field.
C2_ExclusiveAfterEnums ==
    (ret.op = "Build" /\ Acc.ExchCode # "" /\ Acc.MicCode # "") =>
        /\ ret.err # ErrNil
        /\ (\A i \in EnumIdx : ~OutOfSet(Acc, i)) => ret.err = ErrExclusive
        /\ (\E i \in EnumIdx : OutOfSet(Acc, i)) => \E i \in EnumIdx : ret.err = BadEnum(i)

\* Both codes are valid, a third field holds an invalid interval, and Build
\* has reported the mutual exclusion.
C2_Witness ==
    /\ ret.op = "Build"
    /\ Acc.ExchCode = "US"
    /\ Acc.MicCode = "ADRK"
    /\ Acc.Strike # <<>>
    /\ intervalValidateFloat(Acc.Strike[1]) # ErrNil
    /\ ret.err = ErrExclusive

ErrNullNull == Errorf("interval cannot be [null, null]", "")

ErrBadInterval == Errorf("bad interval: %v > %v", "")

ErrBadDate == Errorf("bad date format: %v", "")

FloatSetters == [SetStrike |-> "Strike", SetContractSize |-> "ContractSize",
                 SetCoupon |-> "Coupon"]

DateSetters == [SetExpiration |-> "Expiration", SetMaturity |-> "Maturity"]

\* C3: a numeric interval set from (a, b), each a number or absent, fails
\* validation when both are absent, passes when exactly one is present, and
\* with both present fails when a > b and passes when a <= b.
C3_NumericInterval ==
    (call.op \in DOMAIN FloatSetters /\ ~call.panic) =>
        LET a == call.arg[1]
            b == call.arg[2]
            err == intervalValidateFloat(Acc[FloatSetters[call.op]][1])
        IN  /\ (a.k = "nil" /\ b.k = "nil") => err # ErrNil
            /\ ((a.k = "nil") # (b.k = "nil")) => err = ErrNil
            /\ (a.k = "float64" /\ b.k = "float64" /\ a.f.v > b.f.v) => err # ErrNil
            /\ (a.k = "float64" /\ b.k = "float64" /\ a.f.v <= b.f.v) => err = ErrNil

\* SetCoupon was last called with equal bounds, and Build has accepted them.
C3_Witness ==
    /\ call.op = "SetCoupon"
    /\ call.arg = <<AnyFloat(10), AnyFloat(10)>>
    /\ Acc.Coupon = <<(<<Float(10), Float(10)>>)>>
    /\ ret.op = "Build"
    /\ ret.err = ErrNil

\* The calendar dates among the bounds passed, and their order.
Dates == {D_2021_01_01, D_2022_01_01}

Later(s, e) == s = D_2022_01_01 /\ e = D_2021_01_01

\* The string a bound stands for: an absent bound is the empty string.
BoundString(x) == IF x.k = "nil" THEN <<>> ELSE x.s

NumIntervalOK(ptr) ==
    ptr # <<>> =>
        /\ ~(ptr[1][1] = Inf(-1) /\ ptr[1][2] = Inf(1))
        /\ (ptr[1][1].inf = 0 /\ ptr[1][2].inf = 0) => ptr[1][1].v <= ptr[1][2].v

\* A stored date interval keeps them: a bound is populated, every populated
\* bound is a calendar date, and two dates are in order.
DateIntervalOK(ptr) ==
    ptr # <<>> =>
        /\ ~(ptr[1][1] = <<>> /\ ptr[1][2] = <<>>)
        /\ \A i \in {1, 2} : ptr[1][i] = <<>> \/ ptr[1][i] \in Dates
        /\ ~Later(ptr[1][1], ptr[1][2])

\* Every validation rule of the Base Item holds of item.
RulesHold(item) ==
    /\ \A i \in EnumIdx : ~OutOfSet(item, i)
    /\ ~(item.ExchCode # "" /\ item.MicCode # "")
    /\ NumIntervalOK(item.Strike)
    /\ NumIntervalOK(item.ContractSize)
    /\ NumIntervalOK(item.Coupon)
    /\ DateIntervalOK(item.Expiration)
    /\ DateIntervalOK(item.Maturity)
    /\ item.Expiration # <<>> => item.SecurityType2 = "Option"
    /\ item.Maturity # <<>> => item.SecurityType2 = "Pool"

\* C5: Build fails when expiration is set and securityType2 is not "Option",
\* and when maturity is set and securityType2 is not "Pool"; with expiration
\* set and securityType2 "Option", or maturity set and securityType2 "Pool",
\* and every other rule satisfied, Build succeeds.
C5_ExpirationMaturity ==
    ret.op = "Build" =>
        /\ (Acc.Expiration # <<>> /\ Acc.SecurityType2 # "Option") => ret.err # ErrNil
        /\ (Acc.Maturity # <<>> /\ Acc.SecurityType2 # "Pool") => ret.err # ErrNil
        /\ (Acc.Expiration # <<>> /\ Acc.SecurityType2 = "Option" /\ RulesHold(Acc))
                => ret.err = ErrNil
        /\ (Acc.Maturity # <<>> /\ Acc.SecurityType2 = "Pool" /\ RulesHold(Acc))
                => ret.err = ErrNil

\* An Option with an expiration and a valid exchange code has been built.
C5_Witness ==
    /\ ret.op = "Build"
    /\ Acc.SecurityType2 = "Option"
    /\ Acc.Expiration = <<(<<D_2021_01_01, D_2022_01_01>>)>>
    /\ Acc.ExchCode = "US"
    /\ ret.err = ErrNil

\* The value a field holds once its setter was called with arg: a string or
\* flag as passed, an interval with each absent bound as its sentinel.
Stored(field, arg) ==
    IF field \in {"Strike", "ContractSize", "Coupon"}
    THEN <<(<<IF arg[1].k = "nil" THEN Inf(-1) ELSE arg[1].f,
              IF arg[2].k = "nil" THEN Inf(1) ELSE arg[2].f>>)>>
    ELSE IF field \in {"Expiration", "Maturity"}
    THEN <<(<<BoundString(arg[1]), BoundString(arg[2])>>)>>
    ELSE arg

\* C8: whenever every validation rule holds of the accumulated fields, Build
\* returns a nil error and an item in which each field a setter was called
\* for holds the value last set and every other field is empty.
C8_NoSpuriousRejection ==
    (ret.op = "Build" /\ RulesHold(Acc)) =>
        /\ ret.err = ErrNil
        /\ \A f \in DOMAIN ZeroBaseItem :
              ret.item[f] = IF f \in DOMAIN given THEN Stored(f, given[f])
                            ELSE ZeroBaseItem[f]

\* Scenario A with a strike: exchange code "US", security type 2 "Common
\* Stock" and strike [2, 10] were set, and Build returned exactly them.
C8_Witness ==
    /\ ret.op = "Build"
    /\ DOMAIN given = {"ExchCode", "SecurityType2", "Strike"}
    /\ ret.err = ErrNil
    /\ ret.item = [ZeroBaseItem EXCEPT !.ExchCode = "US",
                                       !.SecurityType2 = "Common Stock",
                                       !.Strike = <<(<<Float(2), Float(10)>>)>>]

ErrMissingSecurityType2 ==
    Errorf("securityType2 must be provided for BASE_TICKER and ID_EXCH_SYMBOL", "")

NeedsSecurityType2 == {"BASE_TICKER", "ID_EXCH_SYMBOL"}

\* C6 as stated: a mapping item of type BASE_TICKER or ID_EXCH_SYMBOL with an
\* empty securityType2 is refused with the missing-required-field error.
C6_AlwaysMissingFieldError ==
    (/\ ret.op \in {"BuildMapping", "AsMappingItem"}
     /\ ret.item.Type \in NeedsSecurityType2
     /\ ret.item.BaseItem.SecurityType2 = "")
        => ret.err = ErrMissingSecurityType2

\* C6 amended: MappingItemBuilder.Build and AsMappingItem with type
\* BASE_TICKER or ID_EXCH_SYMBOL fail when securityType2 is empty, with the
\* missing-required-field error when the Base Item rules hold; they succeed
\* when the Base Item rules hold and securityType2 is populated; and for any
\* other valid type they succeed when the Base Item rules hold, securityType2
\* empty or not.
C6_SecurityType2Required ==
    ret.op \in {"BuildMapping", "AsMappingItem"} =>
        LET base == ret.item.BaseItem
        IN  /\ (ret.item.Type \in NeedsSecurityType2 /\ base.SecurityType2 = "")
                  => /\ ret.err # ErrNil
                     /\ RulesHold(base) => ret.err = ErrMissingSecurityType2
            /\ (/\ ret.item.Type \in NeedsSecurityType2
                /\ base.SecurityType2 # ""
                /\ RulesHold(base)) => ret.err = ErrNil
            /\ (ret.item.Type \in idTypeSet \ NeedsSecurityType2 /\ RulesHold(base))
                  => ret.err = ErrNil

\* An ID_EXCH_SYMBOL builder with no securityType2 and a valid exchange code
\* was built and refused for the missing field.
C6_Witness ==
    /\ ret.op = "BuildMapping"
    /\ ret.item.Type = "ID_EXCH_SYMBOL"
    /\ ret.item.BaseItem.SecurityType2 = ""
    /\ ret.item.BaseItem.ExchCode = "US"
    /\ ret.err = ErrMissingSecurityType2

\* C7: MappingItemBuilder.Build fails whenever the identifier type is not in
\* the ID-type reference set, the empty string included.
C7_IdTypeRequired ==
    (ret.op = "BuildMapping" /\ builder.item.Type \notin idTypeSet)
        => ret.err # ErrNil

\* A builder made with the empty identifier type was built and refused for it.
C7_Witness ==
    /\ ret.op = "BuildMapping"
    /\ builder.item.Type = ""
    /\ ret.err = Errorf("bad idType. See: %s", valuesUrl(""))

\* C9 as stated: when validation fails, either Build returns the zero-value
\* item with the error.
C9_ZeroItemOnError ==
    /\ (ret.op = "Build" /\ ret.err # ErrNil) => ret.item = ZeroBaseItem
    /\ (ret.op = "BuildMapping" /\ ret.err # ErrNil) => ret.item = ZeroMappingItem

\* The BaseItem a server reads from a JSON object: each key's field, and the
\* zero value of every field whose key is absent.
FromWire(obj) ==
    [f \in DOMAIN ZeroBaseItem |->
        IF JSONName[f] \notin DOMAIN obj THEN ZeroBaseItem[f]
        ELSE IF f \in FloatFields
        THEN <<(<<Float(obj[JSONName[f]][1]), Float(obj[JSONName[f]][2])>>)>>
        ELSE IF f \in {"Expiration", "Maturity"}
        THEN <<(<<obj[JSONName[f]][1], obj[JSONName[f]][2]>>)>>
        ELSE obj[JSONName[f]]]

\* The JSON objects of the items in the request last sent: the elements of a
\* mapping request, the one object of a search or filter request.
ItemsSent ==
    IF wire = NoRequest THEN {}
    ELSE IF "array" \in DOMAIN wire.body
    THEN {wire.body.array[i] : i \in DOMAIN wire.body.array}
    ELSE {wire.body.object}

\* C10 as stated: every item serialized into an HTTP request satisfies all
\* validation rules, those of its identifier type included.
C10_OnlyValidItemsSent ==
    \A obj \in ItemsSent :
        /\ RulesHold(FromWire(obj))
        /\ "idType" \in DOMAIN obj =>
              /\ obj["idType"] \in idTypeSet
              /\ obj["idType"] \in NeedsSecurityType2 => "securityType2" \in DOMAIN obj

\* The base URLs the configuration takes.
Urls == {DefaultUrl, TestUrl}

\* The two Next operations, each with its endpoint.
NextOps == {<<"SearchNext", "/search">>, <<"FilterNext", "/filter">>}

\* The body of the request that replays the call behind response value on
\* from its cursor.
ReplayBody(on) ==
    [object |-> MarshalBaseItem(on.baseitem) @@ OmitEmpty("query", on.query)
                    @@ OmitEmpty("start", on.NextHash)]

\* C11: a Next() on a response with an empty cursor returns the "no more
\* results" error and hands no request to the client; a Next() on a response
\* with a cursor hands it exactly one request, to the endpoint of the original
\* call, whose body is the original item and query with the cursor as start,
\* and the response it returns keeps that item and query for the Next() after
\* it.
C11_NextFollowsCursor ==
    \A o \in NextOps :
        done.op = o[1] =>
            /\ done.on.NextHash = "" =>
                  /\ res.err = ErrNoMore
                  /\ res.err \notin {ErrTransport, ErrUnmarshal}
                  /\ done.nreq = 0
            /\ done.on.NextHash # "" =>
                  /\ done.nreq = 1
                  /\ wire.url \in {u \o o[2] : u \in Urls}
                  /\ wire.body = ReplayBody(done.on)
                  /\ res.value.baseitem = done.on.baseitem
                  /\ res.value.query = done.on.query

\* A Next() on a filter response with a cursor was answered with a further
\* cursor.
C11_Witness ==
    /\ done.op = "FilterNext"
    /\ done.on.NextHash = Hash
    /\ done.on.baseitem.ExchCode = "US"
    /\ wire.body.object["start"] = Hash
    /\ res.err = ErrNil
    /\ res.value.NextHash = Hash

\* C12 as stated: whenever Fetch, Search, Filter or Next is answered with a
\* status outside 200..299, the error returned is the status code as text and
\* nothing is decoded.
C12_NonSuccessIsStatusError ==
    (done.nreq = 1 /\ done.status # 0 /\ done.status \notin 200..299) =>
        /\ res.err = Errorf("%d", ToString(done.status))
        /\ res.value.Data = 0

\* The endpoint each call posts to.
Endpoint ==
    [Search |-> "/search", SearchNext |-> "/search", Filter |-> "/filter",
     FilterNext |-> "/filter", Fetch |-> "/mapping"]

\* The step is a call that handed a request to the client.
Sends == done'.nreq = 1 /\ <<wire, res, done>>' # <<wire, res, done>>

\* C14: the base URL is the production endpoint until it is set, and every
\* request of Fetch, Search, Filter and Next is sent to the base URL and
\* carries the API key that are configured when the call is made: the URL is
\* the configured base URL followed by the endpoint, and the header
\* X-OPENFIGI-APIKEY is present exactly when the configured key is non-empty,
\* with that key as its value.
C14_ConfigReadAtCallTime ==
    /\ apiUrl = "https://api.openfigi.com/v3"
    /\ [][Sends =>
            /\ wire'.url = apiUrl \o Endpoint[done'.op]
            /\ \A k \in {"", "key"} :
                  <<"X-OPENFIGI-APIKEY", k>> \in wire'.header <=> (k = apiKey /\ k # "")
         ]_vars

\* A Next() made after the base URL and the key were set, on a response
\* obtained before, went to the new URL with the new key.
C14_Witness ==
    /\ done.op = "SearchNext"
    /\ done.nreq = 1
    /\ wire.url = TestUrl \o "/search"
    /\ <<"X-OPENFIGI-APIKEY", "key">> \in wire.header

\* The goroutines inside a Set of configuration value v, and inside a Get.
Writers(v) == {p \in Procs : pc[p].v = v /\ pc[p].at \in {"Locked", "Half", "Stored"}}

Readers(v) == {p \in Procs : pc[p].v = v /\ pc[p].at \in {"RLocked", "Loaded"}}

\* C13: for the base URL and for the API key, at most one goroutine is inside
\* a Set and none is inside a Get while one is; and the value a Get has read
\* is the initial value or the argument of the most recent Set that returned,
\* never a value half stored.
C13_ReadersWriterExclusion ==
    \A v \in {"url", "key"} :
        /\ Cardinality(Writers(v)) <= 1
        /\ Writers(v) # {} => Readers(v) = {}
        /\ \A p \in Procs :
              (pc[p].v = v /\ pc[p].at = "Loaded") =>
                  /\ pc[p].val = committed[v]
                  /\ pc[p].val \in {DefaultUrl, TestUrl, "", "key"}

\* Two goroutines are inside APIBaseUrl at once and have both read the URL that
\* a SetAPIBaseUrl installed, while a third is inside SetAPIKey.
C13_Witness ==
    /\ Cardinality({p \in Readers("url") : pc[p].at = "Loaded" /\ pc[p].val = TestUrl}) = 2
    /\ \E p \in Procs : pc[p].v = "key" /\ pc[p].at = "Half"

\* The call passes a present bound of the wrong kind: a string to a numeric
\* setter, a number to a date setter.
WrongKind(op, arg) ==
    \/ op \in DOMAIN FloatSetters /\ \E i \in {1, 2} : arg[i].k = "string"
    \/ op \in DOMAIN DateSetters /\ \E i \in {1, 2} : arg[i].k \in {"float64", "int"}

\* C15: an interval setter called with a present bound of the wrong kind
\* panics in that call, and leaves the builder's fields, and any item built
\* before, as they were.
C15_WrongKindPanicsInSetter ==
    [][(nset' = nset + 1 /\ WrongKind(call'.op, call'.arg)) =>
            /\ call'.panic
            /\ builder' = builder
            /\ ret' = ret
      ]_vars

\* SetExpiration was called with a number and panicked, on a builder that
\* holds a strike and no expiration.
C15_Witness ==
    /\ call.op = "SetExpiration"
    /\ call.arg[1].k = "float64"
    /\ call.panic
    /\ Acc.Strike = <<(<<Float(2), Inf(1)>>)>>
    /\ Acc.Expiration = <<>>

\* C16 as stated: a numeric setter called with bounds that are each absent or
\* a number, integer-typed or not, does not fail.
C16_NumericBoundNeverFails ==
    (/\ call.op \in DOMAIN FloatSetters
     /\ \A i \in {1, 2} : call.arg[i].k \in {"nil", "int", "float64"})
        => ~call.panic

\* The values of the option type.
optionTypeSet == {"Call", "Put"}

\* C17 as stated: every Base Item that Build returned without an error has an
\* optionType that is empty or one of "Call" and "Put".
C17_OptionTypeEnumerated ==
    (ret.op = "Build" /\ ret.err = ErrNil) =>
        (ret.item.OptionType = "" \/ ret.item.OptionType \in optionTypeSet)

\* The step is a call that may send a request.
NetStep == <<wire, res, done>>' # <<wire, res, done>>

\* C18: a setter call on the builder changes no field of the item a Build
\* returned before, nor of the item a response holds; the item a Search or
\* Filter response holds is the item the call was made on; and a Next() that
\* replays sends that item and hands it on in the response it returns.
C18_BuiltItemFrozen ==
    [][/\ nset' = nset + 1 => (ret' = ret /\ res' = res)
       /\ (NetStep /\ done'.op \in {"Search", "Filter"}) =>
              res'.value.baseitem = HeldBaseItem
       /\ (NetStep /\ done'.op \in {"SearchNext", "FilterNext"} /\ done'.nreq = 1) =>
              /\ res'.value.baseitem = res.value.baseitem
              /\ wire'.body = ReplayBody(res.value)
      ]_vars

\* An item with strike [2, 10] was built and searched; then the builder's
\* strike was set again, to [10, 2], and a Next() replayed the search.
C18_Witness ==
    /\ ret.op = "Build"
    /\ ret.item.Strike = <<(<<Float(2), Float(10)>>)>>
    /\ Acc.Strike = <<(<<Float(10), Float(2)>>)>>
    /\ done.op = "SearchNext"
    /\ done.nreq = 1
    /\ res.value.baseitem = ret.item

\* The fields an error of Build is about.
Offending(err) ==
    IF \E i \in EnumIdx : err = BadEnum(i)
    THEN {EnumFields[i].field : i \in {j \in EnumIdx : err = BadEnum(j)}}
    ELSE IF err = ErrExclusive THEN {"ExchCode", "MicCode"}
    ELSE IF err \in {ErrNullNull, ErrBadInterval, ErrBadDate}
    THEN {"Strike", "ContractSize", "Coupon", "Expiration", "Maturity"}
    ELSE IF err = Errorf("expiration is only valid for Option", "")
    THEN {"Expiration", "SecurityType2"}
    ELSE IF err = Errorf("maturity is only valid for Pool", "")
    THEN {"Maturity", "SecurityType2"}
    ELSE {}

\* The step is a Build of either builder.
BuildStep ==
    /\ nset' = nset
    /\ UNCHANGED <<wire, res, done>>
    /\ ret'.op \in {"Build", "BuildMapping"}

\* The BaseItem in what a Build returned.
BuiltBase(r) == IF r.op = "BuildMapping" THEN r.item.BaseItem ELSE r.item

NumIntervalErr(ptr) ==
    IF ptr = <<>> \/ NumIntervalOK(ptr) THEN ErrNil
    ELSE IF ptr[1][1] = Inf(-1) /\ ptr[1][2] = Inf(1) THEN ErrNullNull
    ELSE ErrBadInterval

\* The error of a date interval that breaks its rule.
DateIntervalErr(ptr) ==
    IF ptr = <<>> \/ DateIntervalOK(ptr) THEN ErrNil
    ELSE IF ptr[1][1] = <<>> /\ ptr[1][2] = <<>> THEN ErrNullNull
    ELSE IF \E i \in {1, 2} : ptr[1][i] # <<>> /\ ptr[1][i] \notin Dates THEN ErrBadDate
    ELSE ErrBadInterval

\* The rules of the Base Item in the order they are tested, each with the error
\* it reports for item, ErrNil when item keeps it.
BaseRules(item) ==
    [i \in EnumIdx |-> IF OutOfSet(item, i) THEN BadEnum(i) ELSE ErrNil]
    \o <<IF item.ExchCode # "" /\ item.MicCode # "" THEN ErrExclusive ELSE ErrNil,
         NumIntervalErr(item.Strike),
         NumIntervalErr(item.ContractSize),
         NumIntervalErr(item.Coupon),
         DateIntervalErr(item.Expiration),
         DateIntervalErr(item.Maturity),
         IF item.Expiration # <<>> /\ item.SecurityType2 # "Option"
         THEN Errorf("expiration is only valid for Option", "") ELSE ErrNil,
         IF item.Maturity # <<>> /\ item.SecurityType2 # "Pool"
         THEN Errorf("maturity is only valid for Pool", "") ELSE ErrNil>>

\* The rules of the Mapping Item: the Base Item's, then the identifier type,
\* then the securityType2 it requires.
MappingRules(item) ==
    BaseRules(item.BaseItem)
    \o <<IF item.Type \notin idTypeSet
         THEN Errorf("bad idType. See: %s", valuesUrl(item.Type)) ELSE ErrNil,
         IF item.Type \in NeedsSecurityType2 /\ item.BaseItem.SecurityType2 = ""
         THEN ErrMissingSecurityType2 ELSE ErrNil>>

\* The error of the first rule broken, ErrNil when none is.
FirstBroken(rules) ==
    LET broken == {i \in DOMAIN rules : rules[i] # ErrNil}
    IN  IF broken = {} THEN ErrNil
        ELSE rules[CHOOSE i \in broken : \A j \in broken : i <= j]

\* C19: the one error Build returns is that of the first rule broken in the
\* order enumerated fields, exchCode with micCode, the intervals strike,
\* contractSize, coupon, expiration, maturity, expiration without Option,
\* maturity without Pool; and for MappingItemBuilder.Build in that order
\* followed by the identifier type and then the required securityType2.
C19_FirstViolationReported ==
    /\ ret.op = "Build" => ret.err = FirstBroken(BaseRules(Acc))
    /\ ret.op = "BuildMapping" => ret.err = FirstBroken(MappingRules(ret.item))

\* A BASE_TICKER builder with both codes, a null contract size and no
\* securityType2 was built: three rules are broken and the error is that of
\* exchCode with micCode.
C19_Witness ==
    /\ ret.op = "BuildMapping"
    /\ ret.item.Type = "BASE_TICKER"
    /\ Acc.ExchCode = "US" /\ Acc.MicCode = "ADRK"
    /\ Acc.ContractSize # <<>>
    /\ Acc.SecurityType2 = ""
    /\ ret.err = ErrExclusive


\* ------------------------------------------------------------ SpecBoth
\* One builder whose interval fields and securityType2 are set in any order,
\* before and after it is built, with bounds that validate, with
\* [null, null], and with a bound of the wrong dynamic type.

BothDates == {<<AnyString(D_2021_01_01), AnyString(D_2022_01_01)>>,
              <<AnyNil, AnyNil>>,
              <<AnyFloat(2), AnyNil>>}

BothNums == {StrikeFrom2, <<AnyNil, AnyNil>>, <<AnyString(D_2021_01_01), AnyNil>>}

NextBoth ==
    \/ \E v \in {"Option", "Pool"} : SetSecurityType2(v)
    \/ \E arg \in BothDates : SetExpiration(arg)
    \/ \E arg \in BothDates : SetMaturity(arg)
    \/ \E arg \in BothNums : SetStrike(arg)
    \/ Build
    \/ BuildMapping

SpecBoth == InitWith({"TICKER"}) /\ [][NextBoth]_vars

\* The interval fields of a BaseItem.
IntervalFields == {"Strike", "ContractSize", "Coupon", "Expiration", "Maturity"}

\* C21: no step returns an interval field of the builder to nil; a Build of a
\* builder that holds both an expiration and a maturity fails, whatever was
\* set or built before; and an item built without error never holds both.
C21_ExpirationWithMaturityNeverBuilds ==
    [][/\ \A f \in IntervalFields : Acc[f] # <<>> => Acc'[f] # <<>>
       /\ (BuildStep /\ Acc.Expiration # <<>> /\ Acc.Maturity # <<>>) =>
              ret'.err # ErrNil
       /\ (BuildStep /\ ret'.err = ErrNil) =>
              \/ BuiltBase(ret').Expiration = <<>>
              \/ BuiltBase(ret').Maturity = <<>>
      ]_vars

\* Expiration and maturity were set to intervals that validate, securityType2
\* was set to "Option" after them, and the Build failed for the maturity.
C21_Witness ==
    /\ ret.op = "Build"
    /\ nset = 3
    /\ given = Given("SecurityType2", "Option")
    /\ ret.item.Expiration = <<(<<D_2021_01_01, D_2022_01_01>>)>>
    /\ ret.item.Maturity = <<(<<D_2021_01_01, D_2022_01_01>>)>>
    /\ ret.item.SecurityType2 = "Option"
    /\ ret.err = Errorf("maturity is only valid for Pool", "")

\* ------------------------------------------------------------ SpecPair
\* A call of Search, Filter or Fetch that goes from one read of the
\* configuration to the next while other goroutines call SetAPIBaseUrl and
\* SetAPIKey.  Each configuration function runs under the mutex of its own
\* value, so each is one step.

\* go SetAPIBaseUrl(x) for v = "url", go SetAPIKey(x) for v = "key"
GoSet(v, x) ==
    /\ mu[v] = [w |-> {}, r |-> {}]
    /\ Store(v, x)
    /\ committed' = [committed EXCEPT ![v] = x]
    /\ pairs' = pairs \cup {<<apiUrl', apiKey'>>}
    /\ UNCHANGED <<builder, nset, given, call, ret, net, mu, pc, asm, m_req, batch>>

GoSetAPIBaseUrl(url) == GoSet("url", url)

GoSetAPIKey(key) == GoSet("key", key)

\* The response type T of each call.
Kind == [Search |-> "search", Filter |-> "filter", Fetch |-> "mapping"]

\* What each call marshals: the query of the item the caller holds, or a
\* MappingRequest of that one item.
Marshalled(op) ==
    IF op = "Fetch" THEN MarshalMappingRequest(<<ret.item>>)
    ELSE MarshalSearchOrFilter(HeldBaseItem, "ibm", "")

\* Fetch and postBaseItem up to http.NewRequest, which reads APIBaseUrl(), and
\* the Content-Type header
PostNewRequest(op) ==
    /\ asm.at = "idle"
    /\ IF op = "Fetch" THEN ret.op = "BuildMapping" ELSE ret.op # "none"
    /\ Marshalled(op).err = ErrNil
    /\ asm' = [at |-> "NewRequest", op |-> op, key |-> "",
               req |-> [url |-> APIBaseUrl \o
                                   (IF op = "Fetch" THEN "/mapping"
                                    ELSE IF op = "Search" THEN "/search" ELSE "/filter"),
                        header |-> {<<"Content-Type", "application/json">>},
                        body |-> Marshalled(op).json]]
    /\ UNCHANGED <<config, builder, nset, given, call, ret, net, sync, pairs, m_req, batch>>

\* if key := APIKey(); key != "" { req.Header.Set("X-OPENFIGI-APIKEY", key) }
PostSetKey ==
    /\ asm.at = "NewRequest"
    /\ asm' = [asm EXCEPT !.at = "Header",
                          !.key = APIKey,
                          !.req.header = @ \cup (IF APIKey # ""
                                                 THEN {<<"X-OPENFIGI-APIKEY", APIKey>>}
                                                 ELSE {})]
    /\ UNCHANGED <<config, builder, nset, given, call, ret, net, sync, pairs, m_req, batch>>

\* client.Do(req) and what follows it
PostDo ==
    /\ asm.at = "Header"
    /\ \E reply \in Replies :
          LET r == Receive(Kind[asm.op], reply)
          IN  /\ wire' = asm.req
              /\ res' = IF asm.op = "Fetch" THEN r
                        ELSE [r EXCEPT !.value.baseitem = HeldBaseItem,
                                       !.value.query = "ibm"]
              /\ done' = [op |-> asm.op, on |-> NoResponse.value, nreq |-> 1,
                          status |-> reply.status]
    /\ asm' = NoAssembly
    /\ UNCHANGED <<config, builder, nset, given, call, ret, sync, pairs, m_req, batch>>

NextPair ==
    \/ Build
    \/ BuildMapping
    \/ \E url \in {DefaultUrl, TestUrl} : GoSetAPIBaseUrl(url)
    \/ \E key \in {"", "key"} : GoSetAPIKey(key)
    \/ \E op \in {"Search", "Filter", "Fetch"} : PostNewRequest(op)
    \/ PostSetKey
    \/ PostDo

SpecPair == InitWith({"TICKER"}) /\ [][NextPair]_vars

\* The configurations a request that was sent agrees with: the URL is the base
\* URL followed by the endpoint of the call, and the key header is there
\* exactly when the key is not empty, with the key as its value.
SentWith ==
    {c \in {DefaultUrl, TestUrl} \X {"", "key"} :
        /\ wire.url = c[1] \o Endpoint[done.op]
        /\ \A k \in {"", "key"} :
              <<"X-OPENFIGI-APIKEY", k>> \in wire.header <=> (k = c[2] /\ k # "")}

\* C22 as stated: every request that Fetch, Search or Filter sent carries a
\* base URL and a key that the configuration held together at one time.
C22_PairConfiguredTogether ==
    done.nreq = 1 => SentWith \cap pairs # {}

\* ----------------------------------------------------------- SpecBatch
\* A MappingRequest that is extended from builders, some of which do not
\* build.

\* The loop of FromMappingItemBuilders over the builders left, on the request
\* so far: the request and the error it returns with.  Each builder is a copy
\* of the caller's.
RECURSIVE FromMappingItemBuildersOf(_, _)
FromMappingItemBuildersOf(req, builders) ==
    IF builders = <<>> THEN [req |-> req, err |-> ErrNil]
    ELSE LET r == MappingItemBuilder_Build(Head(builders))
         IN  IF r.err # ErrNil THEN [req |-> req, err |-> r.err]
             ELSE FromMappingItemBuildersOf(Append(req, r.item), Tail(builders))

\* FromMappingItemBuilders that gives the request back as it was when a
\* builder fails.
FromMappingItemBuilders_rollsBack(builders) ==
    LET r == FromMappingItemBuildersOf(m_req, builders)
    IN  /\ Len(m_req) <= MaxRequest
        /\ m_req' = IF r.err # ErrNil THEN m_req ELSE r.req
        /\ batch' = [builders |-> builders, before |-> m_req, err |-> r.err]
        /\ UNCHANGED <<config, builder, nset, given, call, ret, net, sync, asm, pairs>>

\* m_req.FromMappingItemBuilders(builders...)
FromMappingItemBuilders(builders) ==
    LET r == FromMappingItemBuildersOf(m_req, builders)
    IN  /\ Len(m_req) <= MaxRequest
        /\ m_req' = r.req
        /\ batch' = [builders |-> builders, before |-> m_req, err |-> r.err]
        /\ UNCHANGED <<config, builder, nset, given, call, ret, net, sync, asm, pairs>>

\* The builders a caller passes: two that build, one without an idType, one
\* with an exchange code outside the set.
IBM == GetBuilder("TICKER", "IBM")

AAPL == GetBuilder("TICKER", "AAPL")

NoIdType == GetBuilder("", "IBM")

BadExchCode == [GetBuilder("TICKER", "IBM") EXCEPT !.BaseItemBuilder.item.ExchCode = Bad]

BatchBuilders == {IBM, AAPL, NoIdType, BadExchCode}

\* The sequences of at most n members of S.
SeqUpTo(S, n) == UNION {[1..k -> S] : k \in 0..n}

NextBatch ==
    \E builders \in SeqUpTo(BatchBuilders, MaxBuilders) : FromMappingItemBuilders(builders)

SpecBatch == InitWith({"TICKER"}) /\ [][NextBatch]_vars

\* What each of the builders returns from Build.
Built(builders) == [i \in DOMAIN builders |-> MappingItemBuilder_Build(builders[i])]

\* The index of the first builder whose Build fails, one past the last builder
\* when none does.
FirstFailing(builders) ==
    LET failing == {i \in DOMAIN builders : Built(builders)[i].err # ErrNil}
    IN  IF failing = {} THEN Len(builders) + 1
        ELSE CHOOSE k \in failing : \A i \in failing : k <= i

\* C23: after FromMappingItemBuilders(b1..bn) the request is the request as it
\* was before the call, followed by the items of the builders before the first
\* one whose Build fails, in argument order, and by nothing else; the error
\* returned is the error of that Build, and nil when every builder builds, in
\* which case all n items were appended.
C23_BatchAppendsUpToFirstFailure ==
    LET bs == batch.builders
        k == FirstFailing(bs)
    IN  /\ m_req = batch.before \o [i \in 1..(k - 1) |-> Built(bs)[i].item]
        /\ batch.err = IF k <= Len(bs) THEN Built(bs)[k].err ELSE ErrNil
        /\ batch.err = ErrNil => Len(m_req) = Len(batch.before) + Len(bs)

\* A request that held one item was given a builder that builds, one without
\* an idType and one that builds: the call returned the error of the second,
\* and the request holds the old item and the item of the first builder.
C23_Witness ==
    /\ batch.builders = <<IBM, NoIdType, AAPL>>
    /\ Len(batch.before) = 1
    /\ batch.before[1].Value = "AAPL"
    /\ Len(m_req) = 2
    /\ m_req[1] = batch.before[1]
    /\ m_req[2].Value = "IBM"
    /\ batch.err # ErrNil
    /\ batch.err = MappingItem_validate(NoIdType.item)
=============================================================================
